---- MODULE Spec2Model ----
(***************************************************************************)
(* EaseMyTrip flight automation: the filter-and-extract pipeline of        *)
(* PureUIFilterEngine (src/src/automation/flight_filter_engine.py) and the *)
(* data-driven batch runner (src/tests/test_part2_data_driven.py).         *)
(*                                                                         *)
(* Prices are in abstract units 1..MaxPrice.  A result row carries the     *)
(* price and stop attributes of a '.fltResult[price][stop]' element, an    *)
(* inline style flag (style.display = 'none') and a flag for every other   *)
(* way the host page hides a row (class, hidden attribute, empty box).     *)
(***************************************************************************)
EXTENDS Integers, Sequences, FiniteSets, TLC

\* ------------------------------------------------------------- bounds
MaxPrice == 3
NumRows == 1
MaxRuns == 2
MaxCases == 6
MaxFaults == 1

\* ------------------------------------------------------------ values
None == "none"
NoRead == {"no_read"}
Boxes == {"chkNonStop", "chkOneStop", "chkTwoStop"}
StopAttrs == {"0", "1", "2"}
Codes == {"DEL"}
Prices == 1..MaxPrice

\* The stops_filter labels of the test data: the nine keys of filter_mapping
\* and one unsupported label.
SupportedLabels ==
  {"Non-stop", "Nonstop", "1 Stop", "1-stop", "One Stop",
   "2+ Stop", "2 Stop", "2 Stops", "Two Stop"}
AllLabels == SupportedLabels \cup {"3 Stop"}

\* One label for each way a label is treated by the applier and the extractor.
RunLabels == {"Non-stop", "Nonstop", "1 Stop", "2 Stops", "3 Stop"}

\* filter_mapping.get(stops_filter)
filter_mapping(label) ==
  CASE label \in {"Non-stop", "Nonstop"} -> "chkNonStop"
    [] label \in {"1 Stop", "1-stop", "One Stop"} -> "chkOneStop"
    [] label \in {"2+ Stop", "2 Stop", "2 Stops", "Two Stop"} -> "chkTwoStop"
    [] OTHER -> None

\* The stop attribute a checkbox stands for on the host page.
BoxStop(box) ==
  CASE box = "chkNonStop" -> "0"
    [] box = "chkOneStop" -> "1"
    [] box = "chkTwoStop" -> "2"

\* 'Convert stop attribute to readable format'
stopType(stop) ==
  CASE stop = "0" -> "Non-stop"
    [] stop = "1" -> "1 Stop"
    [] stop = "2" -> "2+ Stop"
    [] OTHER -> "Unknown"

\* The canonical category of a label: the readable form of the stop its
\* checkbox stands for.
CanonicalCategory(label) ==
  IF filter_mapping(label) = None THEN "Unknown"
  ELSE stopType(BoxStop(filter_mapping(label)))

Max2(a, b) == IF a >= b THEN a ELSE b
Min2(a, b) == IF a <= b THEN a ELSE b

\* -------------------------------------------------------- page state
NoBounds == [min |-> 0, max |-> 0]
NoPage == [rows |-> << >>, checked |-> {}, slider |-> NoBounds, mech |-> None]

HideMechanisms == {"style", "class"}
PriceRanges == {r \in [min : Prices, max : Prices] : r.min <= r.max}
SliderRanges == {[min |-> 1, max |-> MaxPrice], [min |-> 2, max |-> MaxPrice - 1]}
RowAttrs == [price : Prices, stop : StopAttrs]
Configs ==
  {[stops_filter |-> l, price_min |-> r.min, price_max |-> r.max] :
     l \in RunLabels, r \in PriceRanges}

\* isVisible: the composite visibility check of a result row.
isVisible_inline_style_only(row) == ~row.styleNone
isVisible(row) == ~row.styleNone /\ ~row.hostHidden

\* The host page's own re-render for the checked stop controls: with no box
\* checked every row shows, otherwise only rows of a checked category.  The
\* host hides a row either through its inline style or through another
\* mechanism (mech).
HostRender(rows, checked, mech) ==
  [i \in DOMAIN rows |->
     LET out == checked # {} /\ ~(\E b \in checked : BoxStop(b) = rows[i].stop)
     IN IF mech = "style"
        THEN [rows[i] EXCEPT !.styleNone = out]
        ELSE [rows[i] EXCEPT !.hostHidden = out]]

\* The results page as first rendered.
LoadedPage(attrs, checked, slider, mech) ==
  [rows |-> HostRender([i \in DOMAIN attrs |->
                          [price |-> attrs[i].price, stop |-> attrs[i].stop,
                           styleNone |-> FALSE, hostHidden |-> FALSE]],
                       checked, mech),
   checked |-> checked, slider |-> slider, mech |-> mech]

\* _count_visible_flights
count_visible_flights(pg) ==
  Cardinality({i \in DOMAIN pg.rows : isVisible(pg.rows[i])})

\* ------------------------------------------------------- stops filter
ClickOutcomes == {"toggle", "raise"}
StopsFaults == {"none", "initial_read", "final_read"}

\* 'Success criteria: Only target checkbox should be checked'
stops_success_only_member(final_state, target) == target \in final_state
stops_success(final_state, target) ==
  Cardinality(final_state) = 1 /\ target \in final_state

\* 'if not target_checkbox_id: return False'
unknown_filter_clicks_all(checked, label, oc, fault) ==
  [ret |-> FALSE, checked |-> {}, final_state |-> NoRead, clicked |-> Boxes]
unknown_filter(checked, label, oc, fault) ==
  [ret |-> FALSE, checked |-> checked, final_state |-> NoRead, clicked |-> {}]

\* _test_stops_ui_filter_corrected: oc[b] is what a click on box b does,
\* fault is the page read that raises into the outer handler.
test_stops_ui_filter_corrected(checked, label, oc, fault) ==
  LET target == filter_mapping(label)
      toUncheck == {b \in checked : b # target}
      afterUncheck == checked \ {b \in toUncheck : oc[b] = "toggle"}
      clickTarget == target \notin checked
      afterTarget == IF clickTarget /\ oc[target] = "toggle"
                     THEN afterUncheck \cup {target} ELSE afterUncheck
      clicked == toUncheck \cup (IF clickTarget THEN {target} ELSE {})
  IN CASE target = None -> unknown_filter(checked, label, oc, fault)
       [] target # None /\ fault = "initial_read" ->
            [ret |-> FALSE, checked |-> checked, final_state |-> NoRead,
             clicked |-> {}]
       [] target # None /\ fault = "final_read" ->
            [ret |-> FALSE, checked |-> afterTarget, final_state |-> NoRead,
             clicked |-> clicked]
       [] OTHER ->
            [ret |-> stops_success(afterTarget, target), checked |-> afterTarget,
             final_state |-> afterTarget, clicked |-> clicked]

\* ------------------------------------------------------- price filter
PriceOutcomes == {"ok", "unavailable", "raise"}

\* targetMin / targetMax: the request clamped to the slider's range.
targetBounds(min_price, max_price, slider) ==
  [min |-> Max2(min_price, slider.min), max |-> Min2(max_price, slider.max)]

\* 'MANUALLY FILTER FLIGHTS BY PRICE ATTRIBUTES'
price_filter_rows(rows, t) ==
  [i \in DOMAIN rows |->
     IF rows[i].price < t.min \/ rows[i].price > t.max
     THEN [rows[i] EXCEPT !.styleNone = TRUE]
     ELSE [rows[i] EXCEPT !.styleNone = FALSE]]

\* _test_price_ui_filter: the page afterwards and the bounds it applied.
test_price_ui_filter(pg, min_price, max_price, o) ==
  IF o = "ok" /\ pg # NoPage
  THEN LET t == targetBounds(min_price, max_price, pg.slider)
       IN [page |-> [pg EXCEPT !.rows = price_filter_rows(pg.rows, t)],
           achieved |-> t]
  ELSE [page |-> pg, achieved |-> NoBounds]

\* ---------------------------------------------------------- extraction
\* priceMatches, with the bounds read from the config
priceMatches_no_upper(price, cfg) == price >= cfg.price_min
priceMatches_no_lower(price, cfg) == price <= cfg.price_max
priceMatches(price, cfg) == price >= cfg.price_min /\ price <= cfg.price_max

\* stopMatches, with targetStop read from the config
stopMatches(stop, targetStop) ==
  \/ targetStop = "Non-stop" /\ stop = "0"
  \/ targetStop = "1 Stop" /\ stop = "1"
  \/ targetStop = "2+ Stop" /\ stop = "2"
  \/ targetStop = "2 Stop" /\ stop = "2"
  \/ targetStop = "2 Stops" /\ stop = "2"

\* fromCode / toCode: the cached code, or N/A
codeOrNA(code) == IF code = "" THEN "N/A" ELSE code

\* _extract_ui_filtered_flights_only, when the page script runs
extract_ui_filtered_flights_only(pg, cfg, cache) ==
  LET all == [i \in DOMAIN pg.rows |->
                [index |-> i, price |-> pg.rows[i].price,
                 stops |-> stopType(pg.rows[i].stop),
                 from_code |-> codeOrNA(cache.from_airport_code),
                 to_code |-> codeOrNA(cache.to_airport_code)]]
      keep(f) == /\ isVisible(pg.rows[f.index])
                 /\ priceMatches(f.price, cfg)
                 /\ stopMatches(pg.rows[f.index].stop, cfg.stops_filter)
  IN SelectSeq(all, keep)

\* ------------------------------------------------------- city selection
\* A suggestion's text after the city name: a parenthesised upper-case code,
\* a parenthesised lower-case one, or none.
Parens == Codes \cup {"", "del"}
SelectOutcomes ==
  {[clicked |-> FALSE, paren |-> "", verified |-> FALSE]} \cup
  [clicked : {TRUE}, paren : Parens, verified : BOOLEAN]

\* _extract_airport_code: the group of r'\(([A-Z]{3})\)', or ''
extract_airport_code(paren) == IF paren \in Codes THEN paren ELSE ""

\* _select_city: the cache is written when a suggestion was clicked and a code
\* was parsed from it; the call succeeds when the field then shows a value.
select_city(cache, field, o) ==
  LET code == IF o.clicked THEN extract_airport_code(o.paren) ELSE ""
  IN [ok |-> o.clicked /\ o.verified,
      cache |-> IF code # "" THEN [cache EXCEPT ![field] = code] ELSE cache,
      code |-> code]

\* ------------------------------------------------------------ results
NoResult == [status |-> "none"]
FailResult == [status |-> "FAIL", reason |-> "Search failed", flights |-> << >>]
ErrorResult(text) == [status |-> "ERROR", error |-> text, flights |-> << >>]
SuccessResult(before, after, flights, cfg) ==
  [status |-> "SUCCESS", before_count |-> before, after_count |-> after,
   ui_filtered_flights |-> flights, test_config |-> cfg]

NoConfig == [stops_filter |-> "", price_min |-> 0, price_max |-> 0]
EmptyCache == [from_airport_code |-> "", to_airport_code |-> ""]
NoStops == [ran |-> FALSE, ret |-> FALSE, final_state |-> NoRead,
            clicked |-> {}, before |-> {}]
NoSearch ==
  [cities |-> << >>, date |-> "unset", attempts |-> 0, works |-> << >>,
   tried |-> << >>, search_success |-> FALSE, indicator |-> None]

\* --------------------------------------------------------------- state
VARIABLES
  pc,                      \* position in test_ui_filter_functionality
  runNo,                   \* runs started on this engine instance
  config,                  \* the TestConfig of the current run
  selected_airport_codes,  \* the engine's airport-code cache
  page,                    \* the results page of the open browser
  openBrowsers,            \* browsers launched and not closed
  before_count, after_count, ui_filtered_flights,
  pending,                 \* the value the try block is returning
  outcome,                 \* what the caller of the last run got
  raisedIn,                \* stages of the current run that raised
  parsed,                  \* airport codes parsed in the current run
  achieved,                \* bounds the price filter applied in this run
  stops,                   \* the stops filter call of the current run
  searchLog                \* what the search of the current run did

engineVars ==
  <<pc, runNo, config, selected_airport_codes, page, openBrowsers,
    before_count, after_count, ui_filtered_flights, pending, outcome,
    raisedIn, parsed, achieved, stops, searchLog>>


VARIABLES
  idx,            \* number of the case being run (enumerate from 1)
  all_results,    \* the aggregated results
  passed_tests, failed_tests,
  flights_found,  \* the function's local: Unbound, or <<n>> once assigned
  batch_pc,       \* "loop", "stopped" (emergency stop) or "done"
  verdict,        \* how the batch test ended
  report,         \* the rows of the Test_Execution_Summary sheet
  caseLog         \* what each executed case's engine call gave

batchVars ==
  <<idx, all_results, passed_tests, failed_tests, flights_found, batch_pc,
    verdict, report, caseLog>>

\* Single calls of _select_city's matching script and of the Part 1 report
\* functions, with their arguments and results.
VARIABLES
  city_name,           \* _select_city: the name to select
  validSuggestions,    \* the valid suggestions of the autocomplete list
  selection_result,    \* what the matching script returned
  ui_flights,          \* _extract_and_consolidate_data: the flights it gets
  consolidated_data,   \* its consolidated_data
  flight_details_data, \* rows of the Flight Details sheet
  summary_sheet,       \* rows of the Airline Summary sheet, gaps included
  part1_pc,            \* where the Part 1 test or its report functions are
  part1_result         \* test_part1_core_automation: filter_status and count

callVars ==
  <<city_name, validSuggestions, selection_result, ui_flights,
    consolidated_data, flight_details_data, summary_sheet, part1_pc,
    part1_result>>

vars == <<engineVars, batchVars, callVars>>

NoSelection == [success |-> FALSE, error |-> "not run", clicked |-> 0]
NoPart1 == [filter_status |-> "none", filtered_count |-> 0]

\* No single call is being looked at.
CallsIdle ==
  /\ city_name = << >>
  /\ validSuggestions = << >>
  /\ selection_result = NoSelection
  /\ ui_flights = << >>
  /\ consolidated_data = << >>
  /\ flight_details_data = << >>
  /\ summary_sheet = << >>
  /\ part1_pc = "idle"
  /\ part1_result = NoPart1

Unbound == << >>

\* test_part2_data_driven_all_cases before its loop ('Initialize result tracking')
BatchInit ==
  /\ idx = 0
  /\ all_results = << >>
  /\ passed_tests = 0
  /\ failed_tests = 0
  /\ flights_found = Unbound
  /\ batch_pc = "loop"
  /\ verdict = "running"
  /\ report = << >>
  /\ caseLog = << >>

\* No batch is running.
BatchIdle == BatchInit

\* PureUIFilterEngine.__init__
EngineInit ==
  /\ pc = "idle"
  /\ runNo = 0
  /\ config = NoConfig
  /\ selected_airport_codes = EmptyCache
  /\ page = NoPage
  /\ openBrowsers = 0
  /\ before_count = 0
  /\ after_count = 0
  /\ ui_filtered_flights = << >>
  /\ pending = NoResult
  /\ outcome = [kind |-> "none", result |-> NoResult]
  /\ raisedIn = {}
  /\ parsed = EmptyCache
  /\ achieved = NoBounds
  /\ stops = NoStops
  /\ searchLog = NoSearch

\* An exception may be raised while the run's fault budget lasts.
CanRaise == Cardinality(raisedIn) < MaxFaults

\* 'return' inside the try block: the finally clause runs next.
Return(res) ==
  /\ pending' = res
  /\ pc' = "finally"

\* Variant of with_exit: leaving the with block ends no browser.
with_exit_leaves_browser(open, launched) == open

\* Leaving 'with sync_playwright() as p' stops that Playwright instance and
\* with it the browsers launched through it that are still open.
with_exit(open, launched) == open - launched

\* test_ui_filter_functionality, up to the try block: launch and new_page.
StartRun(cfg, o) ==
  /\ pc = "idle"
  /\ runNo < MaxRuns
  /\ o = "ok" \/ MaxFaults > 0
  /\ runNo' = runNo + 1
  /\ config' = cfg
  /\ before_count' = 0
  /\ after_count' = 0
  /\ ui_filtered_flights' = << >>
  /\ pending' = NoResult
  /\ raisedIn' = IF o = "ok" THEN {} ELSE {o}
  /\ parsed' = EmptyCache
  /\ achieved' = NoBounds
  /\ stops' = NoStops
  /\ searchLog' = NoSearch
  /\ page' = NoPage
  /\ openBrowsers' = CASE o = "ok" -> openBrowsers + 1
                       [] o = "launch" -> with_exit(openBrowsers, 0)
                       [] o = "new_page" -> with_exit(openBrowsers + 1, 1)
  /\ outcome' = IF o = "ok" THEN [kind |-> "none", result |-> NoResult]
                ELSE [kind |-> "raised", result |-> NoResult]
  /\ pc' = IF o = "ok" THEN "cities" ELSE "idle"
  /\ UNCHANGED selected_airport_codes

\* _perform_flight_search: navigation, both city selections, their check.
SelectCities(fo, to, r) ==
  /\ pc = "cities"
  /\ r = "ok" \/ CanRaise
  /\ LET f == select_city(selected_airport_codes, "from_airport_code", fo)
         t == select_city(f.cache, "to_airport_code", to)
     IN IF r = "goto"
        THEN /\ UNCHANGED <<selected_airport_codes, parsed, searchLog>>
             /\ raisedIn' = raisedIn \cup {"search"}
             /\ Return(FailResult)
        ELSE /\ selected_airport_codes' = t.cache
             /\ searchLog' = [searchLog EXCEPT !.cities = <<f.ok, t.ok>>]
             /\ parsed' = [from_airport_code |-> f.code, to_airport_code |-> t.code]
             /\ raisedIn' = IF r = "verify" THEN raisedIn \cup {"search"} ELSE raisedIn
             /\ IF r = "verify" \/ ~f.ok \/ ~t.ok
                THEN Return(FailResult)
                ELSE pc' = "date" /\ UNCHANGED pending
  /\ UNCHANGED <<runNo, config, page, openBrowsers, before_count, after_count,
                 ui_filtered_flights, outcome, achieved, stops>>

\* 'Set the date value' and 'Verify date was set successfully': one
\* assignment to the field, one read of it (o: what the read shows), and an
\* empty field only logs a warning.
set_date_empty_is_fatal(o) == [attempts |-> 1, date |-> o, fatal |-> o = "empty"]
set_date(o) == [attempts |-> 1, date |-> o, fatal |-> FALSE]

\* _perform_flight_search: the date field is set once and read back.
SetDate(o) ==
  /\ pc = "date"
  /\ o # "raise" \/ CanRaise
  /\ IF o = "raise"
     THEN /\ raisedIn' = raisedIn \cup {"search"}
          /\ Return(FailResult)
          /\ UNCHANGED searchLog
     ELSE LET d == set_date(o)
          IN /\ searchLog' = [searchLog EXCEPT !.date = d.date,
                                                !.attempts = d.attempts]
             /\ IF d.fatal THEN Return(FailResult)
                ELSE pc' = "submit" /\ UNCHANGED pending
             /\ UNCHANGED raisedIn
  /\ UNCHANGED <<runNo, config, selected_airport_codes, page, openBrowsers,
                 before_count, after_count, ui_filtered_flights, outcome,
                 parsed, achieved, stops>>

\* The submission methods tried, in order, until one works (1: page.click
\* on the Search control, 2: scripted click of it, 3: call of
\* SearchFlightWithArmyTest); works[m]: method m does not raise.
methodsTried_all(works) == <<1, 2, 3>>
methodsTried(works) ==
  IF works[1] THEN <<1>> ELSE IF works[2] THEN <<1, 2>> ELSE <<1, 2, 3>>

\* _perform_flight_search: 'Submit search - try multiple approaches'
Submit(works) ==
  /\ pc = "submit"
  /\ searchLog' = [searchLog EXCEPT
                     !.works = <<works[1], works[2], works[3]>>,
                     !.tried = methodsTried(works),
                     !.search_success = \E m \in 1..3 : works[m]]
  /\ IF \E m \in 1..3 : works[m]
     THEN pc' = "wait" /\ UNCHANGED pending
     ELSE Return(FailResult)
  /\ UNCHANGED <<runNo, config, selected_airport_codes, page, openBrowsers,
                 before_count, after_count, ui_filtered_flights, outcome,
                 raisedIn, parsed, achieved, stops>>

\* _perform_flight_search: 'Check for results page'
WaitResults(o, pg) ==
  /\ pc = "wait"
  /\ o # "raise" \/ CanRaise
  /\ IF o \in {"list", "filters"}
     THEN /\ page' = pg
          /\ searchLog' = [searchLog EXCEPT !.indicator = o]
          /\ pc' = "count_before"
          /\ UNCHANGED <<pending, raisedIn>>
     ELSE /\ raisedIn' = IF o = "raise" THEN raisedIn \cup {"search"} ELSE raisedIn
          /\ Return(FailResult)
          /\ searchLog' = [searchLog EXCEPT !.indicator = o]
          /\ UNCHANGED page
  /\ UNCHANGED <<runNo, config, selected_airport_codes, openBrowsers,
                 before_count, after_count, ui_filtered_flights, outcome,
                 parsed, achieved, stops>>

\* Variant of next_stage: the price filter is applied before the stops filter.
next_stage_price_first(stage) ==
  CASE stage = "count_before" -> "price"
    [] stage = "price" -> "stops"
    [] stage = "stops" -> "count_after"
    [] stage = "count_after" -> "extract"

\* Variant of next_stage: the price filter is not applied after the stops
\* filter.
next_stage_without_price(stage) ==
  CASE stage = "count_before" -> "stops"
    [] stage = "stops" -> "count_after"
    [] stage = "price" -> "count_after"
    [] stage = "count_after" -> "extract"

\* The statement sequence of steps 2 to 5 of test_ui_filter_functionality,
\* the two filters in the order _apply_pure_ui_filters calls them.
next_stage(stage) ==
  CASE stage = "count_before" -> "stops"
    [] stage = "stops" -> "price"
    [] stage = "price" -> "count_after"
    [] stage = "count_after" -> "extract"

\* The exception text str(e) of an exception caught by the run's handler.
ExceptionTexts == {"exc: count before", "exc: count after"}

\* '2. Get BEFORE filtering count'; an exception reaches the run's handler.
\* What the search did is not kept once the pipeline has moved past it.
CountBefore(o) ==
  /\ pc = "count_before"
  /\ o = "ok" \/ CanRaise
  /\ IF o = "ok"
     THEN /\ before_count' = count_visible_flights(page)
          /\ pc' = next_stage("count_before")
          /\ UNCHANGED <<pending, raisedIn>>
     ELSE /\ raisedIn' = raisedIn \cup {"count_before"}
          /\ Return(ErrorResult("exc: count before"))
          /\ UNCHANGED before_count
  /\ searchLog' = NoSearch
  /\ UNCHANGED <<runNo, config, selected_airport_codes, page, openBrowsers,
                 after_count, ui_filtered_flights, outcome, parsed, achieved,
                 stops>>

\* _apply_pure_ui_filters, first half: the stops filter.  skip: the wait
\* before it raised and the handler of _apply_pure_ui_filters ended the call.
ApplyStops(skip, oc, fault) ==
  /\ pc = "stops"
  /\ CanRaise \/ (~skip /\ fault = "none" /\ \A b \in Boxes : oc[b] = "toggle")
  /\ IF skip
     THEN /\ raisedIn' = raisedIn \cup {"filters"}
          /\ pc' = "count_after"
          /\ UNCHANGED <<page, stops>>
     ELSE LET r == test_stops_ui_filter_corrected(page.checked,
                                                  config.stops_filter, oc, fault)
          IN /\ stops' = [ran |-> TRUE, ret |-> r.ret,
                          final_state |-> r.final_state,
                          clicked |-> r.clicked, before |-> page.checked]
             /\ page' = [page EXCEPT !.checked = r.checked,
                           !.rows = HostRender(page.rows, r.checked, page.mech)]
             /\ raisedIn' =
                  IF fault # "none" \/ (\E b \in r.clicked : oc[b] = "raise")
                  THEN raisedIn \cup {"stops"} ELSE raisedIn
             /\ pc' = next_stage("stops")
  /\ UNCHANGED <<runNo, config, selected_airport_codes, openBrowsers,
                 before_count, after_count, ui_filtered_flights, pending,
                 outcome, parsed, achieved, searchLog>>

\* _apply_pure_ui_filters, second half: the price filter.  skip: the wait
\* between the two filters raised.
ApplyPrice(skip, o) ==
  /\ pc = "price"
  /\ CanRaise \/ (~skip /\ o # "raise")
  /\ IF skip
     THEN /\ raisedIn' = raisedIn \cup {"filters"}
          /\ UNCHANGED <<page, achieved>>
     ELSE LET r == test_price_ui_filter(page, config.price_min,
                                        config.price_max, o)
          IN /\ page' = r.page
             /\ achieved' = r.achieved
             /\ raisedIn' = IF o = "raise" THEN raisedIn \cup {"price"}
                            ELSE raisedIn
  /\ pc' = next_stage("price")
  /\ UNCHANGED <<runNo, config, selected_airport_codes, openBrowsers,
                 before_count, after_count, ui_filtered_flights, pending,
                 outcome, parsed, stops, searchLog>>

\* '4. Get AFTER filtering count'
CountAfter(o) ==
  /\ pc = "count_after"
  /\ o = "ok" \/ CanRaise
  /\ IF o = "ok"
     THEN /\ after_count' = count_visible_flights(page)
          /\ pc' = next_stage("count_after")
          /\ UNCHANGED <<pending, raisedIn>>
     ELSE /\ raisedIn' = raisedIn \cup {"count_after"}
          /\ Return(ErrorResult("exc: count after"))
          /\ UNCHANGED after_count
  /\ UNCHANGED <<runNo, config, selected_airport_codes, page, openBrowsers,
                 before_count, ui_filtered_flights, outcome, parsed, achieved,
                 stops, searchLog>>

\* The flights the run extracts: the page script's list, or [] when
\* _extract_ui_filtered_flights_only caught an exception.
extracted(pg, cfg, cache, o) ==
  IF o = "ok" THEN extract_ui_filtered_flights_only(pg, cfg, cache) ELSE << >>

\* '5. Extract ONLY what the UI shows' and the SUCCESS return.
Extract(o) ==
  /\ pc = "extract"
  /\ o = "ok" \/ CanRaise
  /\ LET fl == extracted(page, config, selected_airport_codes, o)
     IN /\ ui_filtered_flights' = fl
        /\ Return(SuccessResult(before_count, after_count, fl, config))
  /\ raisedIn' = IF o = "raise" THEN raisedIn \cup {"extract"} ELSE raisedIn
  /\ UNCHANGED <<runNo, config, selected_airport_codes, page, openBrowsers,
                 before_count, after_count, outcome, parsed, achieved, stops,
                 searchLog>>

\* 'finally: browser.close()', then the caller gets the pending result, or
\* the exception close raised.
Close(o) ==
  /\ pc = "finally"
  /\ o = "ok" \/ CanRaise
  /\ IF o = "ok"
     THEN /\ openBrowsers' = with_exit(openBrowsers - 1, 0)
          /\ outcome' = [kind |-> "returned", result |-> pending]
          /\ UNCHANGED raisedIn
     ELSE /\ outcome' = [kind |-> "raised", result |-> NoResult]
          /\ raisedIn' = raisedIn \cup {"close"}
          /\ openBrowsers' = with_exit(openBrowsers, 1)
  /\ page' = NoPage
  /\ pending' = NoResult
  /\ pc' = "idle"
  /\ UNCHANGED <<runNo, config, selected_airport_codes, before_count,
                 after_count, ui_filtered_flights, parsed, achieved, stops,
                 searchLog>>

\* The result pages a search can land on: no row or NumRows rows, with stop
\* controls as the host page left them.
InitialChecked == {{}, {"chkOneStop"}, {"chkNonStop", "chkTwoStop"}}
RowLists == [1..NumRows -> RowAttrs] \cup {<< >>}
Pages ==
  {LoadedPage(a, c, s, m) :
     a \in RowLists, c \in InitialChecked, s \in SliderRanges,
     m \in HideMechanisms}

\* ------------------------------------------------- one run, any input
Init == EngineInit /\ BatchIdle /\ CallsIdle

Next ==
  \/ /\ pc = "idle"
     /\ runNo = 0
     /\ \E cfg \in Configs, o \in {"ok", "launch", "new_page"} : StartRun(cfg, o)
     /\ UNCHANGED <<batchVars, callVars>>
  \/ /\ pc = "cities"
     /\ \E fo \in SelectOutcomes, to \in SelectOutcomes,
           r \in {"ok", "goto", "verify"} : SelectCities(fo, to, r)
     /\ UNCHANGED <<batchVars, callVars>>
  \/ /\ pc = "date"
     /\ \E o \in {"set", "empty", "raise"} : SetDate(o)
     /\ UNCHANGED <<batchVars, callVars>>
  \/ /\ pc = "submit"
     /\ \E works \in [1..3 -> BOOLEAN] : Submit(works)
     /\ UNCHANGED <<batchVars, callVars>>
  \/ /\ pc = "wait"
     /\ \E o \in {"list", "filters", "neither", "raise"}, pg \in Pages :
           WaitResults(o, pg)
     /\ UNCHANGED <<batchVars, callVars>>
  \/ /\ pc = "count_before"
     /\ \E o \in {"ok", "raise"} : CountBefore(o)
     /\ UNCHANGED <<batchVars, callVars>>
  \/ /\ pc = "stops"
     /\ \E skip \in BOOLEAN, oc \in [Boxes -> ClickOutcomes],
           fault \in StopsFaults : ApplyStops(skip, oc, fault)
     /\ UNCHANGED <<batchVars, callVars>>
  \/ /\ pc = "price"
     /\ \E skip \in BOOLEAN, o \in PriceOutcomes : ApplyPrice(skip, o)
     /\ UNCHANGED <<batchVars, callVars>>
  \/ /\ pc = "count_after"
     /\ \E o \in {"ok", "raise"} : CountAfter(o)
     /\ UNCHANGED <<batchVars, callVars>>
  \/ /\ pc = "extract"
     /\ \E o \in {"ok", "raise"} : Extract(o)
     /\ UNCHANGED <<batchVars, callVars>>
  \/ /\ pc = "finally"
     /\ \E o \in {"ok", "raise"} : Close(o)
     /\ UNCHANGED <<batchVars, callVars>>

Spec == Init /\ [][Next]_vars

\* ------------------------------------- the stops filter, any controls
\* The run stands before the stops filter, on a results page whose controls
\* are in any state, with any label of the test data.
StopsLabelConfigs ==
  {[stops_filter |-> l, price_min |-> 1, price_max |-> MaxPrice] : l \in AllLabels}
StopsPages ==
  {LoadedPage(a, c, [min |-> 1, max |-> MaxPrice], m) :
     a \in [1..1 -> [price : {1}, stop : StopAttrs]], c \in SUBSET Boxes,
     m \in HideMechanisms}

StopsInit ==
  /\ BatchIdle
  /\ CallsIdle
  /\ pc = "stops"
  /\ runNo = 1
  /\ config \in StopsLabelConfigs
  /\ selected_airport_codes = EmptyCache
  /\ page \in StopsPages
  /\ openBrowsers = 1
  /\ before_count = count_visible_flights(page)
  /\ after_count = 0
  /\ ui_filtered_flights = << >>
  /\ pending = NoResult
  /\ outcome = [kind |-> "none", result |-> NoResult]
  /\ raisedIn = {}
  /\ parsed = EmptyCache
  /\ achieved = NoBounds
  /\ stops = NoStops
  /\ searchLog = NoSearch

StopsNext ==
  /\ pc = "stops"
  /\ \E skip \in BOOLEAN, oc \in [Boxes -> ClickOutcomes],
        fault \in StopsFaults : ApplyStops(skip, oc, fault)
  /\ UNCHANGED <<batchVars, callVars>>

StopsSpec == StopsInit /\ [][StopsNext]_vars

\* --------------------------------- several runs on one engine instance
\* conftest.py hands every test the same session-scoped engine: runs follow
\* one another on it.  One request and one results page are enough here.
ReuseConfigs ==
  {[stops_filter |-> "Non-stop", price_min |-> 1, price_max |-> MaxPrice]}
ReusePages ==
  {LoadedPage(<<[price |-> 1, stop |-> "0"]>>, {},
              [min |-> 1, max |-> MaxPrice], "class")}

ReuseNext ==
  \/ /\ pc = "idle"
     /\ \E cfg \in ReuseConfigs, o \in {"ok", "launch", "new_page"} :
           StartRun(cfg, o)
     /\ UNCHANGED <<batchVars, callVars>>
  \/ /\ pc = "cities"
     /\ \E fo \in SelectOutcomes, to \in SelectOutcomes,
           r \in {"ok", "goto", "verify"} : SelectCities(fo, to, r)
     /\ UNCHANGED <<batchVars, callVars>>
  \/ /\ pc = "date"
     /\ \E o \in {"set", "empty", "raise"} : SetDate(o)
     /\ UNCHANGED <<batchVars, callVars>>
  \/ /\ pc = "submit"
     /\ \E works \in [1..3 -> BOOLEAN] : Submit(works)
     /\ UNCHANGED <<batchVars, callVars>>
  \/ /\ pc = "wait"
     /\ \E o \in {"list", "filters", "neither", "raise"}, pg \in ReusePages :
           WaitResults(o, pg)
     /\ UNCHANGED <<batchVars, callVars>>
  \/ /\ pc = "count_before"
     /\ \E o \in {"ok", "raise"} : CountBefore(o)
     /\ UNCHANGED <<batchVars, callVars>>
  \/ /\ pc = "stops"
     /\ \E skip \in BOOLEAN, oc \in [Boxes -> ClickOutcomes],
           fault \in StopsFaults : ApplyStops(skip, oc, fault)
     /\ UNCHANGED <<batchVars, callVars>>
  \/ /\ pc = "price"
     /\ \E skip \in BOOLEAN, o \in PriceOutcomes : ApplyPrice(skip, o)
     /\ UNCHANGED <<batchVars, callVars>>
  \/ /\ pc = "count_after"
     /\ \E o \in {"ok", "raise"} : CountAfter(o)
     /\ UNCHANGED <<batchVars, callVars>>
  \/ /\ pc = "extract"
     /\ \E o \in {"ok", "raise"} : Extract(o)
     /\ UNCHANGED <<batchVars, callVars>>
  \/ /\ pc = "finally"
     /\ \E o \in {"ok", "raise"} : Close(o)
     /\ UNCHANGED <<batchVars, callVars>>

ReuseSpec == Init /\ [][ReuseNext]_vars

\* ------------------------------------------------------ batch runner
\* test_part2_data_driven_all_cases.  What one call of
\* test_ui_filter_functionality gives the runner: an exception, or a result
\* with a status.  The engine of this repository returns SUCCESS, FAIL or
\* ERROR and no validation_result; the runner also handles TIMEOUT, other
\* statuses and a validation_result that did not pass.  n is the number of
\* flights of the result, valid is validation_result.validation_passed (True
\* when the key is absent), meets is whether every flight of the result lies
\* within the requested price and stops bounds; the runner never reads it.
EmergencyFailures == 3
EmergencyWindow == 5
FlightCounts == {0, 1}
NoKey == <<"<no such key>">>
EngineErrorText == "exc: count before"
RawExceptionTexts ==
  ExceptionTexts \cup {"exc: engine call", "exc: flights_found unbound"}

CaseOutcomes ==
  {[kind |-> "raise", status |-> "", n |-> 0, valid |-> TRUE, meets |-> TRUE]} \cup
  {[kind |-> "result", status |-> st, n |-> 0, valid |-> TRUE, meets |-> TRUE] :
     st \in {"FAIL", "ERROR", "TIMEOUT", "PARTIAL"}} \cup
  {[kind |-> "result", status |-> "SUCCESS", n |-> 0, valid |-> TRUE,
    meets |-> TRUE]} \cup
  {[kind |-> "result", status |-> "SUCCESS", n |-> k, valid |-> v, meets |-> m] :
     k \in FlightCounts \ {0}, v \in BOOLEAN, m \in BOOLEAN}

\* The if/elif chain on result_status: the counter it increments, the
\* filter_status and the user_message it stores in the result.
classify(o) ==
  CASE o.status = "FAIL" ->
         [failed |-> 1, passed |-> 0, filter_status |-> "CORE_OPERATION_FAILED",
          user_message |-> <<"Test Failed:", "Search failed">>]
    [] o.status = "ERROR" ->
         [failed |-> 1, passed |-> 0, filter_status |-> "TECHNICAL_ERROR",
          user_message |-> <<"Technical Error:", EngineErrorText>>]
    [] o.status = "TIMEOUT" ->
         [failed |-> 1, passed |-> 0, filter_status |-> "TIMEOUT",
          user_message |-> <<"Timeout: Test took too long to complete">>]
    [] o.status = "SUCCESS" /\ o.n > 0 /\ o.valid ->
         [failed |-> 0, passed |-> 1, filter_status |-> "PASSED",
          user_message |-> <<"Success: Found flights matching your criteria">>]
    [] o.status = "SUCCESS" /\ o.n > 0 /\ ~o.valid ->
         [failed |-> 1, passed |-> 0, filter_status |-> "VALIDATION_FAILED",
          user_message |-> <<"Test Failed: flights don't match filter criteria">>]
    [] o.status = "SUCCESS" /\ o.n = 0 ->
         [failed |-> 0, passed |-> 1, filter_status |-> "NO_FLIGHTS_FOUND",
          user_message |-> <<"No flights found matching your criteria">>]
    [] OTHER ->
         [failed |-> 1, passed |-> 0, filter_status |-> "UNKNOWN_STATUS",
          user_message |-> <<"Unknown test status:", o.status>>]

\* 'Emergency stop if too many consecutive failures'
emergency_stop(failed, i) == failed >= EmergencyFailures /\ i <= EmergencyWindow

\* 'Store failure result'
failure_entry(i, text) ==
  [test_number |-> i, filter_status |-> "TEST_EXECUTION_FAILED",
   flights_found |-> 0, user_message |-> NoKey, error_message |-> <<text>>]

\* The except branch of the loop body, entered with the counters as the try
\* block left them.
ExceptBranch(i, failedSoFar, text) ==
  /\ failed_tests' = failedSoFar + 1
  /\ IF emergency_stop(failedSoFar + 1, i)
     THEN /\ batch_pc' = "stopped"
          /\ UNCHANGED all_results
     ELSE /\ all_results' = Append(all_results, failure_entry(i, text))
          /\ UNCHANGED batch_pc

\* One pass of the loop body for the next case, o being what the engine gave.
RunCase(o) ==
  /\ batch_pc = "loop"
  /\ idx < MaxCases
  /\ idx' = idx + 1
  /\ caseLog' = Append(caseLog, o)
  /\ IF o.kind = "raise"
     THEN /\ ExceptBranch(idx + 1, failed_tests, "exc: engine call")
          /\ UNCHANGED <<passed_tests, flights_found>>
     ELSE LET c == classify(o)
              ff == IF o.status = "SUCCESS" THEN <<o.n>> ELSE flights_found
          IN /\ flights_found' = ff
             /\ passed_tests' = passed_tests + c.passed
             /\ IF ff = Unbound
                THEN ExceptBranch(idx + 1, failed_tests + c.failed,
                                  "exc: flights_found unbound")
                ELSE /\ failed_tests' = failed_tests + c.failed
                     /\ all_results' = Append(all_results,
                          [test_number |-> idx + 1,
                           filter_status |-> c.filter_status,
                           flights_found |-> ff[1],
                           user_message |-> c.user_message,
                           error_message |-> NoKey])
                     /\ UNCHANGED batch_pc
  /\ UNCHANGED <<verdict, report>>

\* _create_clean_test_summary_sheet: one row for each aggregated result.
summary_rows(results) ==
  [i \in DOMAIN results |->
     [test_number |-> results[i].test_number,
      status |-> results[i].filter_status,
      flights_found |-> results[i].flights_found,
      result |-> IF results[i].filter_status \in {"PASSED", "NO_FLIGHTS_FOUND"}
                 THEN "COMPLETED" ELSE "FAILED",
      message |-> IF results[i].user_message = NoKey THEN <<"Test completed">>
                  ELSE results[i].user_message]]

\* 'STRICT ASSERTIONS': the statuses counted as critical failures, and those
\* whose details are collected, where reading test_id off the stored
\* TestConfig with .get raises.
critical_statuses_without_timeout ==
  {"CORE_OPERATION_FAILED", "TECHNICAL_ERROR", "TEST_EXECUTION_FAILED",
   "VALIDATION_FAILED", "UNKNOWN_STATUS"}
critical_statuses ==
  {"CORE_OPERATION_FAILED", "TECHNICAL_ERROR", "TIMEOUT",
   "TEST_EXECUTION_FAILED", "VALIDATION_FAILED", "UNKNOWN_STATUS"}
detailed_statuses ==
  {"CORE_OPERATION_FAILED", "TECHNICAL_ERROR", "TEST_EXECUTION_FAILED",
   "VALIDATION_FAILED", "UNKNOWN_STATUS"}

final_verdict(results) ==
  IF \E i \in DOMAIN results : results[i].filter_status \in critical_statuses
  THEN IF \E i \in DOMAIN results : results[i].filter_status \in detailed_statuses
       THEN "AttributeError" ELSE "pytest.fail"
  ELSE "passed"

\* After the loop (exhausted, or left by the emergency stop): the report and
\* the final assertions.
Finish ==
  /\ batch_pc \in {"loop", "stopped"}
  /\ report' = summary_rows(all_results)
  /\ verdict' = final_verdict(all_results)
  /\ batch_pc' = "done"
  /\ UNCHANGED <<idx, all_results, passed_tests, failed_tests, flights_found,
                 caseLog>>

BatchNext ==
  \/ /\ \E o \in CaseOutcomes : RunCase(o)
     /\ UNCHANGED <<engineVars, callVars>>
  \/ /\ Finish
     /\ UNCHANGED <<engineVars, callVars>>

BatchSpec == Init /\ [][BatchNext]_vars

\* ------------------------------------ one case: engine run, then runner
\* What the runner's loop body sees of the engine call: the exception that
\* came out of it, or the status and the flights of the dictionary returned.
\* The dictionary has no validation_result key, so validation_passed takes
\* its default.
flight_meets(f, cfg) ==
  /\ cfg.price_min <= f.price
  /\ f.price <= cfg.price_max
  /\ f.stops = CanonicalCategory(cfg.stops_filter)

engine_case_outcome(out) ==
  IF out.kind = "raised"
  THEN [kind |-> "raise", status |-> "", n |-> 0, valid |-> TRUE, meets |-> TRUE]
  ELSE IF out.result.status = "SUCCESS"
  THEN [kind |-> "result", status |-> "SUCCESS",
        n |-> Len(out.result.ui_filtered_flights),
        valid |-> TRUE,
        meets |-> \A i \in DOMAIN out.result.ui_filtered_flights :
                    flight_meets(out.result.ui_filtered_flights[i],
                                 out.result.test_config)]
  ELSE [kind |-> "result", status |-> out.result.status, n |-> 0,
        valid |-> TRUE, meets |-> TRUE]

\* The loop body for the first test case, on the outcome of the engine run.
ClassifyRun ==
  /\ pc = "idle"
  /\ outcome.kind # "none"
  /\ idx = 0
  /\ RunCase(engine_case_outcome(outcome))
  /\ UNCHANGED <<engineVars, callVars>>

CaseNext ==
  \/ Next
  \/ ClassifyRun

CaseSpec == Init /\ [][CaseNext]_vars

\* ------------------------------ city matching, any list of suggestions
\* Texts are sequences of characters, so that case folding, splitting and
\* prefix and substring tests are computed as the script computes them.
MaxSuggestions == 2

Lowers == <<"a", "d", "e", "g", "h", "i", "l", "n", "o", "w">>
Uppers == <<"A", "D", "E", "G", "H", "I", "L", "N", "O", "W">>

IsLetter(c) == \E i \in 1..Len(Lowers) : c = Lowers[i] \/ c = Uppers[i]

lowerChar(c) ==
  IF \E i \in 1..Len(Uppers) : Uppers[i] = c
  THEN Lowers[CHOOSE i \in 1..Len(Uppers) : Uppers[i] = c]
  ELSE c

upperChar(c) ==
  IF \E i \in 1..Len(Lowers) : Lowers[i] = c
  THEN Uppers[CHOOSE i \in 1..Len(Lowers) : Lowers[i] = c]
  ELSE c

toLowerCase(s) == [i \in 1..Len(s) |-> lowerChar(s[i])]
upper(s) == [i \in 1..Len(s) |-> upperChar(s[i])]

\* str.title(): a letter is upper-cased after a non-letter and at the
\* start, lower-cased after a letter.
title(s) ==
  [i \in 1..Len(s) |->
     IF i = 1 \/ ~IsLetter(s[i - 1]) THEN upperChar(s[i]) ELSE lowerChar(s[i])]

RECURSIVE trimStart(_)
trimStart(s) ==
  IF s # << >> /\ Head(s) = " " THEN trimStart(Tail(s)) ELSE s

RECURSIVE trimEnd(_)
trimEnd(s) ==
  IF s # << >> /\ s[Len(s)] = " " THEN trimEnd(SubSeq(s, 1, Len(s) - 1)) ELSE s

trim(s) == trimEnd(trimStart(s))

\* itemText.split('(')[0]
RECURSIVE beforeParen(_)
beforeParen(s) ==
  IF s = << >> \/ Head(s) = "(" THEN << >>
  ELSE <<Head(s)>> \o beforeParen(Tail(s))

cityInSuggestion(itemText) == trim(beforeParen(itemText))

startsWith(a, b) == Len(b) <= Len(a) /\ SubSeq(a, 1, Len(b)) = b

includes(a, b) ==
  \E i \in 0..(Len(a) - Len(b)) : SubSeq(a, i + 1, i + Len(b)) = b

delhi == <<"d", "e", "l", "h", "i">>
goa == <<"g", "o", "a">>

city_variations(name) ==
  <<name, toLowerCase(name), upper(name), title(name)>>
    \o (IF toLowerCase(name) = delhi
        THEN <<<<"n", "e", "w", " ", "d", "e", "l", "h", "i">>,
               <<"N", "e", "w", " ", "D", "e", "l", "h", "i">>,
               <<"N", "E", "W", " ", "D", "E", "L", "H", "I">>>>
        ELSE << >>)
    \o (IF toLowerCase(name) = goa
        THEN <<<<"g", "o", "a">>, <<"G", "O", "A">>, <<"G", "o", "a">>>>
        ELSE << >>)

ExactScore == 1000
StartsWithScore == 900
PartialMatchScore == 850
ContainsScore == 700
ReverseContainsScore == 650
ConfidenceThreshold == 300

\* Variant of score: a substring match is put above a prefix match.
score_contains_above_prefix(cityPart, variation) ==
  LET suggestionLower == toLowerCase(cityPart)
      variationLower == toLowerCase(variation)
  IN  IF suggestionLower = variationLower THEN ExactScore
      ELSE IF includes(suggestionLower, variationLower)
              /\ Len(variationLower) >= 2 THEN StartsWithScore
      ELSE IF startsWith(suggestionLower, variationLower)
              /\ Len(variationLower) >= 2 THEN ContainsScore
      ELSE IF startsWith(variationLower, suggestionLower)
              /\ Len(suggestionLower) >= 2 THEN PartialMatchScore
      ELSE IF includes(variationLower, suggestionLower)
              /\ Len(suggestionLower) >= 2 THEN ReverseContainsScore
      ELSE 0

\* The if / else-if chain of the matching loop.
score(cityPart, variation) ==
  LET suggestionLower == toLowerCase(cityPart)
      variationLower == toLowerCase(variation)
  IN  IF suggestionLower = variationLower THEN ExactScore
      ELSE IF startsWith(suggestionLower, variationLower)
              /\ Len(variationLower) >= 2 THEN StartsWithScore
      ELSE IF startsWith(variationLower, suggestionLower)
              /\ Len(suggestionLower) >= 2 THEN PartialMatchScore
      ELSE IF includes(suggestionLower, variationLower)
              /\ Len(variationLower) >= 2 THEN ContainsScore
      ELSE IF includes(variationLower, suggestionLower)
              /\ Len(suggestionLower) >= 2 THEN ReverseContainsScore
      ELSE 0

NoMatch == [item |-> 0, score |-> 0]

\* bestMatch and bestScore after the first n (item, variation) pairs, the
\* pairs taken item by item and, for an item, variation by variation.
RECURSIVE best_after(_, _, _)
best_after(items, variations, n) ==
  IF n = 0 THEN NoMatch
  ELSE LET prev == best_after(items, variations, n - 1)
           i == ((n - 1) \div Len(variations)) + 1
           j == ((n - 1) % Len(variations)) + 1
           sc == score(cityInSuggestion(items[i]), variations[j])
       IN  IF sc > 0 /\ sc > prev.score
           THEN [item |-> i, score |-> sc]
           ELSE prev

best_match(items, name) ==
  LET variations == city_variations(name)
  IN  best_after(items, variations, Len(items) * Len(variations))

\* What the matching script returns; clickOk is whether element.click()
\* returned without throwing.
match_suggestions(items, name, clickOk) ==
  IF items = << >>
  THEN [success |-> FALSE, error |-> "No valid suggestions", clicked |-> 0]
  ELSE LET best == best_match(items, name)
       IN  IF best.item # 0 /\ best.score >= ConfidenceThreshold
           THEN IF clickOk
                THEN [success |-> TRUE, error |-> "", clicked |-> best.item]
                ELSE [success |-> FALSE, error |-> "Click failed",
                      clicked |-> best.item]
           ELSE [success |-> FALSE, error |-> "No confident match",
                 clicked |-> 0]

CityNames ==
  {<<"D", "e", "l", "h", "i">>,
   <<"d", "e", "l", "h", "i">>,
   <<"D", "E", "L", "H", "I">>,
   <<"D", "e", "l">>,
   <<"e", "l">>,
   <<"d">>,
   <<"G", "o", "a">>,
   <<"n", "e", "w">>,
   <<"O", "l", "d", " ", "G", "o", "a">>}

SuggestionTexts ==
  {<<"D", "e", "l", "h", "i", " ", "(", "D", "E", "L", ")">>,
   <<"N", "e", "w", " ", "D", "e", "l", "h", "i", " ", "(", "D", "E", "L", ")">>,
   <<"D", "e", "l", "h", "i">>,
   <<"G", "o", "a", " ", "(", "G", "O", "I", ")">>,
   <<"O", "l", "d", " ", "G", "o", "a">>,
   <<"D", "e", " ", "(", "D", "E", "L", ")">>,
   <<"N", "D", " ">>,
   <<"(", "D", "E", "L", ")">>}

SuggestionLists ==
  UNION {[1..n -> SuggestionTexts] : n \in 0..MaxSuggestions}

engineFrame == <<engineVars, batchVars>>

CityInit ==
  /\ EngineInit
  /\ BatchIdle
  /\ city_name \in CityNames
  /\ validSuggestions \in SuggestionLists
  /\ selection_result = NoSelection
  /\ ui_flights = << >>
  /\ consolidated_data = << >>
  /\ flight_details_data = << >>
  /\ summary_sheet = << >>
  /\ part1_pc = "idle"
  /\ part1_result = NoPart1

MatchSuggestions(clickOk) ==
  /\ selection_result = NoSelection
  /\ selection_result' = match_suggestions(validSuggestions, city_name, clickOk)
  /\ UNCHANGED <<city_name, validSuggestions, ui_flights, consolidated_data,
                 flight_details_data, summary_sheet, part1_pc>>
  /\ UNCHANGED <<engineFrame, part1_result>>

CityNext == \E clickOk \in BOOLEAN : MatchSuggestions(clickOk)

CitySpec == CityInit /\ [][CityNext]_vars

\* ------------------------------------- Part 1 report, any list of flights
MaxFlights == 3

AirlineNames == {"Air India", "IndiGo"}
ReportPrices == {950, 1000, 12500}

\* The flights a result can carry, as far as the report reads them; a
\* flight may lack the 'airline' key.
NoAirline == "<no airline key>"
UiFlights == [airline : AirlineNames \cup {NoAirline}, price : ReportPrices]
UiFlightLists == UNION {[1..n -> UiFlights] : n \in 0..MaxFlights}

DigitChars == <<"0", "1", "2", "3", "4", "5", "6", "7", "8", "9">>

RECURSIVE digits(_)
digits(n) ==
  IF n < 10 THEN <<DigitChars[n + 1]>>
  ELSE digits(n \div 10) \o <<DigitChars[(n % 10) + 1]>>

\* The ',' option of the format specification: groups of three digits.
RECURSIVE with_commas(_)
with_commas(ds) ==
  IF Len(ds) <= 3 THEN ds
  ELSE with_commas(SubSeq(ds, 1, Len(ds) - 3)) \o <<",">>
         \o SubSeq(ds, Len(ds) - 2, Len(ds))

\* f"₹{price:,}"
format_price(p) == <<"₹">> \o with_commas(digits(p))

\* flight_details of one flight
flight_details(flight) ==
  [airline_name |-> IF flight.airline = NoAirline THEN "Unknown" ELSE flight.airline,
   price |-> format_price(flight.price),
   price_numeric |-> flight.price]

\* The order list.sort gives to the keys: ascending, equal keys in their
\* original order.  sorted_indices(keys)[r] is the index that comes r-th.
sorted_indices(keys) ==
  LET n == Len(keys)
      rank(i) == Cardinality({j \in 1..n : keys[j] < keys[i]
                                \/ (keys[j] = keys[i] /\ j < i)}) + 1
  IN  [r \in 1..n |-> CHOOSE i \in 1..n : rank(i) = r]

\* Variant of sort_by_price: the list is left in the order it has.
sort_by_price_keeps_order(data) == data

\* .sort(key=lambda x: x.get('price_numeric', 0))
sort_by_price(data) ==
  LET p == sorted_indices([i \in DOMAIN data |-> data[i].price_numeric])
  IN  [r \in DOMAIN data |-> data[p[r]]]

\* _extract_and_consolidate_data: its consolidated_data
consolidate(flights) ==
  IF flights = << >> THEN << >>
  ELSE sort_by_price([i \in DOMAIN flights |-> flight_details(flights[i])])

excel_row(flight) == [airline_name |-> flight.airline_name, price |-> flight.price]

\* 'Create Flight Details data - Sort all flights by price (no grouping)'
flight_details_rows(data) ==
  LET all_flights == sort_by_price(data)
  IN  [i \in DOMAIN all_flights |-> excel_row(all_flights[i])]

\* Variant of airline_groups: a new group starts whenever the airline
\* differs from that of the flight before.
RECURSIVE airline_groups_of_runs(_)
airline_groups_of_runs(data) ==
  IF data = << >> THEN << >>
  ELSE LET front == airline_groups_of_runs(SubSeq(data, 1, Len(data) - 1))
           f == data[Len(data)]
       IN  IF front # << >> /\ front[Len(front)].airline = f.airline_name
           THEN [front EXCEPT ![Len(front)].flights = Append(@, f)]
           ELSE Append(front, [airline |-> f.airline_name, flights |-> <<f>>])

\* airline_groups: the dictionary as the sequence of its items, in the
\* order the keys were inserted.
RECURSIVE airline_groups(_)
airline_groups(data) ==
  IF data = << >> THEN << >>
  ELSE LET front == airline_groups(SubSeq(data, 1, Len(data) - 1))
           f == data[Len(data)]
       IN  IF \E g \in DOMAIN front : front[g].airline = f.airline_name
           THEN LET g == CHOOSE g \in DOMAIN front :
                           front[g].airline = f.airline_name
                IN  [front EXCEPT ![g].flights = Append(@, f)]
           ELSE Append(front, [airline |-> f.airline_name, flights |-> <<f>>])

min_price(flights) ==
  CHOOSE m \in {flights[i].price_numeric : i \in DOMAIN flights} :
    \A i \in DOMAIN flights : m <= flights[i].price_numeric

BlankRow == [airline_name |-> "", price |-> << >>]

RECURSIVE rows_with_gaps(_)
rows_with_gaps(groups) ==
  IF groups = << >> THEN << >>
  ELSE LET rows == [i \in DOMAIN Head(groups).flights |->
                      excel_row(Head(groups).flights[i])]
       IN  IF Len(groups) = 1 THEN rows
           ELSE rows \o <<BlankRow>> \o rows_with_gaps(Tail(groups))

\* 'APPLY GROUPING LOGIC TO AIRLINE SUMMARY SHEET'
airline_summary_rows(data) ==
  LET groups == airline_groups(data)
      each_sorted == [g \in DOMAIN groups |->
                        [groups[g] EXCEPT !.flights = sort_by_price(@)]]
      order == sorted_indices([g \in DOMAIN each_sorted |->
                                 min_price(each_sorted[g].flights)])
      sorted_airlines == [r \in DOMAIN each_sorted |-> each_sorted[order[r]]]
  IN  rows_with_gaps(sorted_airlines)

ReportInit ==
  /\ EngineInit
  /\ BatchIdle
  /\ city_name = << >>
  /\ validSuggestions = << >>
  /\ selection_result = NoSelection
  /\ ui_flights \in UiFlightLists
  /\ consolidated_data = << >>
  /\ flight_details_data = << >>
  /\ summary_sheet = << >>
  /\ part1_pc = "consolidate"
  /\ part1_result = NoPart1

ExtractAndConsolidate ==
  /\ part1_pc = "consolidate"
  /\ consolidated_data' = consolidate(ui_flights)
  /\ part1_pc' = "save"
  /\ UNCHANGED <<city_name, validSuggestions, selection_result, ui_flights,
                 flight_details_data, summary_sheet>>
  /\ UNCHANGED <<engineFrame, part1_result>>

\* _save_part1_excel; o = "raise": creating the directory or saving the
\* workbook raised, no sheet is written.
SavePart1Excel(o) ==
  /\ part1_pc = "save"
  /\ IF o = "ok"
     THEN /\ flight_details_data' = flight_details_rows(consolidated_data)
          /\ summary_sheet' = airline_summary_rows(consolidated_data)
          /\ part1_pc' = "saved"
     ELSE /\ UNCHANGED <<flight_details_data, summary_sheet>>
          /\ part1_pc' = "save failed"
  /\ UNCHANGED <<city_name, validSuggestions, selection_result, ui_flights,
                 consolidated_data>>
  /\ UNCHANGED <<engineFrame, part1_result>>

ReportNext ==
  \/ ExtractAndConsolidate
  \/ \E o \in {"ok", "raise"} : SavePart1Excel(o)

ReportSpec == ReportInit /\ [][ReportNext]_vars

\* ----------------------------- Part 1 test: engine run, then its checks
\* 'If we reach here, result_status is SUCCESS - proceed with flight
\* analysis': flights_found is read from before_count.
part1_filter_status(result) ==
  IF result.before_count = 0 THEN "NO_FLIGHTS_FOUND" ELSE "PASSED"

\* filtered_count of _extract_and_consolidate_data: the flights of the
\* result it consolidated.
filtered_count(result) == Len(result.ui_filtered_flights)

\* test_part1_core_automation after the engine call: the checks of the
\* status, then filter_status and the consolidation.
Part1Check ==
  /\ pc = "idle"
  /\ outcome.kind # "none"
  /\ part1_pc = "idle"
  /\ IF outcome.kind = "raised"
     THEN part1_pc' = "error" /\ UNCHANGED part1_result
     ELSE IF outcome.result.status # "SUCCESS"
     THEN part1_pc' = "pytest.fail" /\ UNCHANGED part1_result
     ELSE /\ part1_result' =
               [filter_status |-> part1_filter_status(outcome.result),
                filtered_count |-> filtered_count(outcome.result)]
          /\ part1_pc' = "classified"
  /\ UNCHANGED <<city_name, validSuggestions, selection_result, ui_flights,
                 consolidated_data, flight_details_data, summary_sheet>>
  /\ UNCHANGED engineFrame

Part1Next ==
  \/ Next
  \/ Part1Check

Part1Spec == Init /\ [][Part1Next]_vars

\* ------------------------------------------------------------ properties
Returned == outcome.kind = "returned"
Succeeded == Returned /\ outcome.result.status = "SUCCESS"
PipelineStages ==
  {"search", "count_before", "stops", "price", "count_after", "extract"}

\* C1: every flight of a SUCCESS result has a price within the configured
\* price_min..price_max and the stops category that is the canonical
\* category of the configured stops_filter.
C1_FlightsMatchRequest ==
  Succeeded =>
    \A i \in DOMAIN outcome.result.ui_filtered_flights :
      LET f == outcome.result.ui_filtered_flights[i]
      IN /\ config.price_min <= f.price
         /\ f.price <= config.price_max
         /\ f.stops = CanonicalCategory(config.stops_filter)

C1_Witness ==
  /\ Succeeded
  /\ Len(outcome.result.ui_filtered_flights) > 0
  /\ stops.ran
  /\ achieved # NoBounds

\* C2: when the price filter achieved bounds other than the requested ones,
\* the achieved bounds are written back into the request, so the test_config
\* reported with the result carries the achieved bounds.
C2_AchievedBoundsPropagated ==
  (Succeeded /\ achieved # NoBounds) =>
    /\ outcome.result.test_config.price_min = achieved.min
    /\ outcome.result.test_config.price_max = achieved.max

\* C3: for a supported label the stops routine returns True exactly when
\* its final read of the checkboxes shows one checked control and that
\* control is the target; a True return leaves exactly the target checked.
C3_StopsSuccessIffOnlyTarget ==
  (stops.ran /\ filter_mapping(config.stops_filter) # None) =>
    /\ stops.ret <=> stops.final_state = {filter_mapping(config.stops_filter)}
    /\ stops.ret => page.checked = {filter_mapping(config.stops_filter)}

C3_Witness ==
  /\ stops.ran
  /\ stops.ret
  /\ Cardinality(stops.clicked) >= 2
  /\ stops.before # page.checked

\* C4: a call of the stops routine with a label outside the supported
\* vocabulary returns False, clicks nothing and leaves the page as it was.
C4_UnsupportedLabelTouchesNothing ==
  [][(pc = "stops" /\ stops'.ran /\ filter_mapping(config.stops_filter) = None)
       => /\ ~stops'.ret
          /\ stops'.clicked = {}
          /\ page' = page]_vars

C4_Witness ==
  /\ stops.ran
  /\ filter_mapping(config.stops_filter) = None
  /\ stops.before # {}
  /\ ~stops.ret

\* C5: a run in which a stage of the pipeline raised returns ERROR or FAIL,
\* never SUCCESS.
C5_RaisedStageNeverSuccess ==
  (Returned /\ raisedIn \cap PipelineStages # {}) =>
    outcome.result.status \in {"ERROR", "FAIL"}

\* C6: a run of test_ui_filter_functionality always ends by returning a
\* result with a status; no exception reaches the caller.
C6_NoExceptionReachesCaller ==
  outcome.kind # "raised"

\* C10: the airport codes written into the flights of a run are the codes
\* parsed from the suggestions selected in that run (N/A when none was
\* parsed), never codes of an earlier run on the same engine.
C10_CodesOfThisSearch ==
  Succeeded =>
    \A i \in DOMAIN outcome.result.ui_filtered_flights :
      LET f == outcome.result.ui_filtered_flights[i]
      IN /\ f.from_code = codeOrNA(parsed.from_airport_code)
         /\ f.to_code = codeOrNA(parsed.to_airport_code)

\* What a case's engine call gave, judged by itself: a failure of any kind
\* (search failure, technical error, timeout, execution failure, validation
\* failure, unrecognised status), or a run that found no flights.
Critical(o) ==
  \/ o.kind = "raise"
  \/ o.status \in {"FAIL", "ERROR", "TIMEOUT", "PARTIAL"}
  \/ o.status = "SUCCESS" /\ o.n > 0 /\ ~o.valid
NoFlights(o) == o.kind = "result" /\ o.status = "SUCCESS" /\ o.n = 0
HardFailure == verdict \in {"pytest.fail", "AttributeError"}

\* The number of failing cases at the end of the log with no passing case
\* between them.
ConsecutiveFailures(log) ==
  LET n == Len(log)
      S == {k \in 0..n : \A j \in (n - k + 1)..n : Critical(log[j])}
  IN CHOOSE k \in S : \A m \in S : m <= k

\* C7: a finished batch ended in a hard failure if and only if at least one
\* executed case had a critical outcome; cases that found no flights are
\* tolerated.
C7_HardFailureIffCritical ==
  batch_pc = "done" =>
    (HardFailure <=> \E i \in DOMAIN caseLog : Critical(caseLog[i]))

C7_Witness ==
  /\ batch_pc = "done"
  /\ HardFailure
  /\ Len(caseLog) >= 3
  /\ \E i \in DOMAIN caseLog : NoFlights(caseLog[i])
  /\ \E i \in DOMAIN caseLog : caseLog[i].status = "TIMEOUT"

\* C8: the loop is left by the emergency stop exactly when the last
\* EmergencyFailures executed cases all failed, each failing case counting
\* once, whatever the kind of failure.
C8_StopIffConsecutiveFailures ==
  batch_pc \in {"loop", "stopped"} =>
    (batch_pc = "stopped" <=> ConsecutiveFailures(caseLog) >= EmergencyFailures)

\* C9: every aggregated case result carries a user_message, and no message
\* of the summary sheet contains the text of a caught exception.
C9_MessagesHumanReadable ==
  /\ \A i \in DOMAIN all_results : all_results[i].user_message # NoKey
  /\ \A i \in DOMAIN report :
       \A k \in DOMAIN report[i].message :
         report[i].message[k] \notin RawExceptionTexts

\* The run ended by returning the search-failure result.
ReturnedFail == Returned /\ outcome.result = FailResult
\* Nothing after the search has run: no count, no filter, no extraction.
NothingAfterSearch ==
  /\ page = NoPage
  /\ before_count = 0
  /\ after_count = 0
  /\ ~stops.ran
  /\ achieved = NoBounds
  /\ ui_filtered_flights = << >>

\* C11: submission tries the direct click, then the scripted click, then the
\* page's search routine, in this order; a method is tried only when every
\* earlier one failed, no method is tried after one worked, and the
\* submission fails exactly when all three failed.
C11_SubmissionOrder ==
  searchLog.tried # << >> =>
    /\ \A k \in DOMAIN searchLog.tried :
         /\ searchLog.tried[k] = k
         /\ \A j \in 1..(k - 1) : ~searchLog.works[j]
    /\ \A m \in 1..3 :
         (\A j \in 1..(m - 1) : ~searchLog.works[j]) =>
           m \in DOMAIN searchLog.tried
    /\ searchLog.search_success <=> \E m \in 1..3 : searchLog.works[m]
    /\ ~searchLog.search_success =>
         /\ pc \in {"finally", "idle"}
         /\ pc = "finally" => pending = FailResult

C11_Witness ==
  /\ searchLog.tried = <<1, 2, 3>>
  /\ searchLog.search_success
  /\ pc = "count_before"

\* C12: when neither the results list nor the filter controls appear after
\* submission, the run returns status FAIL and has counted no flights,
\* applied no filter and extracted nothing.
C12_NoIndicatorReturnsFail ==
  searchLog.indicator = "neither" =>
    /\ pc \in {"finally", "idle"}
    /\ pc = "finally" => pending = FailResult
    /\ pc = "idle" => ReturnedFail
    /\ NothingAfterSearch

\* C13: when the selection of the origin or of the destination city failed,
\* the search sets no date and submits nothing, and the run returns FAIL
\* with an empty flights list, nothing having been extracted.
C13_CityFailureAborts ==
  (searchLog.cities # << >> /\ (~searchLog.cities[1] \/ ~searchLog.cities[2])) =>
    /\ searchLog.date = "unset"
    /\ searchLog.attempts = 0
    /\ searchLog.tried = << >>
    /\ pc \in {"finally", "idle"}
    /\ pc = "finally" => pending = FailResult
    /\ pc = "idle" => ReturnedFail /\ outcome.result.flights = << >>
    /\ NothingAfterSearch

\* C14: the date is assigned once, and a date field read back empty does
\* not end the search: the submission is attempted and the search can
\* return True.
C14_EmptyDateNotFatal ==
  /\ searchLog.date # "unset" => searchLog.attempts = 1
  /\ searchLog.date = "empty" => (pc = "submit" \/ searchLog.tried # << >>)

C14_Witness ==
  /\ searchLog.date = "empty"
  /\ searchLog.search_success
  /\ searchLog.indicator \in {"list", "filters"}
  /\ pc = "count_before"

\* The try block is returning a SUCCESS result: the page is still as the
\* extraction saw it.
ReturningSuccess == pc = "finally" /\ pending.status = "SUCCESS"

\* C16: every flight of the returned list is a row of the page that was
\* visible at extraction, after both filters (not hidden by its inline
\* style nor by the host page's own mechanism); no hidden row is listed.
C16_OnlyVisibleRows ==
  ReturningSuccess =>
    /\ \A k \in DOMAIN pending.ui_filtered_flights :
         LET f == pending.ui_filtered_flights[k]
         IN /\ f.index \in DOMAIN page.rows
            /\ ~page.rows[f.index].styleNone
            /\ ~page.rows[f.index].hostHidden
            /\ f.price = page.rows[f.index].price
    /\ \A i \in DOMAIN page.rows :
         (page.rows[i].styleNone \/ page.rows[i].hostHidden) =>
           ~\E k \in DOMAIN pending.ui_filtered_flights :
               pending.ui_filtered_flights[k].index = i

C16_Witness ==
  /\ ReturningSuccess
  /\ Len(pending.ui_filtered_flights) > 0
  /\ stops.ran
  /\ stops.before # page.checked
  /\ achieved # NoBounds

\* C18: labels that the stops filter maps to the same control are
\* synonyms when flights are matched: on the same page, with the same price
\* bounds, each of them yields the flights the run returns.
C18_SynonymsAcceptSameFlights ==
  (ReturningSuccess /\ "extract" \notin raisedIn) =>
    \A l \in SupportedLabels :
      filter_mapping(l) = filter_mapping(config.stops_filter) =>
        extract_ui_filtered_flights_only(
          page, [config EXCEPT !.stops_filter = l], selected_airport_codes)
        = pending.ui_filtered_flights

\* Match tiers of a pair, stated on the lower-cased texts: 3 for an exact
\* match of the leading city name, 2 for a prefix match, 1 for a substring
\* match, 0 for no match.
Tier(itemText, variation) ==
  LET s == toLowerCase(cityInSuggestion(itemText))
      v == toLowerCase(variation)
  IN  IF s = v THEN 3
      ELSE IF (startsWith(s, v) /\ Len(v) >= 2) \/ (startsWith(v, s) /\ Len(s) >= 2)
      THEN 2
      ELSE IF (includes(s, v) /\ Len(v) >= 2) \/ (includes(v, s) /\ Len(s) >= 2)
      THEN 1
      ELSE 0

MatchRan == selection_result # NoSelection

\* C15: the suggestion the City Selector clicks has, with some variation of
\* the name, a score that no (suggestion, variation) pair exceeds and that
\* reaches the confidence threshold; its tier is the best tier of any pair,
\* an exact match above a prefix match above a substring match; when no
\* pair reaches the threshold nothing is clicked and the selection fails.
C15_ClicksBestSuggestion ==
  MatchRan =>
    LET vs == city_variations(city_name)
        I == DOMAIN validSuggestions
        J == DOMAIN vs
        k == selection_result.clicked
        sc(i, j) == score(cityInSuggestion(validSuggestions[i]), vs[j])
    IN  /\ k # 0 =>
             /\ k \in I
             /\ \E j \in J :
                  /\ sc(k, j) >= ConfidenceThreshold
                  /\ \A i2 \in I, j2 \in J : sc(i2, j2) <= sc(k, j)
                  /\ \A i2 \in I, j2 \in J :
                       Tier(validSuggestions[i2], vs[j2])
                         <= Tier(validSuggestions[k], vs[j])
                  /\ Tier(validSuggestions[k], vs[j]) > 0
        /\ (\A i \in I, j \in J : sc(i, j) < ConfidenceThreshold) =>
             k = 0 /\ ~selection_result.success
        /\ (\A i \in I, j \in J : Tier(validSuggestions[i], vs[j]) = 0) =>
             k = 0 /\ ~selection_result.success
        /\ selection_result.success => k # 0

\* The second suggestion is clicked for its prefix match although the first
\* one matches too, as a substring.
C15_Witness ==
  /\ MatchRan
  /\ selection_result.success
  /\ selection_result.clicked = 2
  /\ Tier(validSuggestions[1], city_name) = 1
  /\ Tier(validSuggestions[2], city_name) = 2

\* Every row of the results page has a price outside the requested bounds.
PriceExcludesEveryRow ==
  /\ page # NoPage
  /\ \A i \in DOMAIN page.rows :
       page.rows[i].price < config.price_min
         \/ page.rows[i].price > config.price_max

\* C17: a run without a fault on a page whose rows all lie outside the
\* requested price bounds returns SUCCESS with an empty flights list, and
\* the runner records a SUCCESS with no flights as NO_FLIGHTS_FOUND, counts
\* it as passed and not as failed.
C17_PriceExcludesAllIsNoFlights ==
  /\ (pc = "finally" /\ raisedIn = {} /\ PriceExcludesEveryRow) =>
       /\ pending.status = "SUCCESS"
       /\ pending.ui_filtered_flights = << >>
  /\ (idx = 1 /\ Returned /\ outcome.result.status = "SUCCESS"
        /\ outcome.result.ui_filtered_flights = << >>) =>
       /\ Len(all_results) = 1
       /\ all_results[1].filter_status = "NO_FLIGHTS_FOUND"
       /\ all_results[1].flights_found = 0
       /\ passed_tests = 1
       /\ failed_tests = 0
       /\ batch_pc = "loop"

\* The stops filter left the controls as they were, the price filter hid
\* every row of a non-empty page and the case was recorded as
\* NO_FLIGHTS_FOUND.
C17_Witness ==
  /\ idx = 1
  /\ Returned
  /\ raisedIn = {}
  /\ before_count > 0
  /\ after_count = 0
  /\ stops.ran
  /\ stops.clicked = {}
  /\ achieved # NoBounds
  /\ outcome.result.status = "SUCCESS"
  /\ all_results[1].filter_status = "NO_FLIGHTS_FOUND"
  /\ passed_tests = 1

\* The number a formatted price shows: its digits, read in order.
RECURSIVE shown_number(_, _)
shown_number(text, acc) ==
  IF text = << >> THEN acc
  ELSE IF \E d \in 0..9 : DigitChars[d + 1] = Head(text)
  THEN shown_number(Tail(text),
                    10 * acc + (CHOOSE d \in 0..9 : DigitChars[d + 1] = Head(text)))
  ELSE shown_number(Tail(text), acc)

RowPrice(row) == shown_number(row.price, 0)

Saved == part1_pc = "saved"

\* C20: the rows of the Flight Details sheet are in non-decreasing order of
\* numeric price, so sorting them again by price changes nothing; the sheet
\* has one row for each flight.
C20_FlatSheetSortedByPrice ==
  Saved =>
    LET rows == flight_details_data
    IN  /\ Len(rows) = Len(ui_flights)
        /\ \A i, j \in DOMAIN rows : i < j => RowPrice(rows[i]) <= RowPrice(rows[j])
        /\ sorted_indices([i \in DOMAIN rows |-> RowPrice(rows[i])])
             = [i \in DOMAIN rows |-> i]
        /\ \A f \in UiFlights :
             Cardinality({i \in DOMAIN ui_flights : ui_flights[i] = f})
               = Cardinality({i \in DOMAIN rows :
                                rows[i] = excel_row(flight_details(f))})

\* Three flights given in descending order of price come out ascending.
C20_Witness ==
  /\ Saved
  /\ Len(ui_flights) = 3
  /\ ui_flights[1].price > ui_flights[2].price
  /\ ui_flights[2].price > ui_flights[3].price
  /\ RowPrice(flight_details_data[1]) < RowPrice(flight_details_data[3])

DataRows == {i \in DOMAIN summary_sheet : summary_sheet[i] # BlankRow}
RowsOf(a) == {i \in DataRows : summary_sheet[i].airline_name = a}
SheetAirlines == {summary_sheet[i].airline_name : i \in DataRows}
GroupMin(a) ==
  CHOOSE m \in {RowPrice(summary_sheet[i]) : i \in RowsOf(a)} :
    \A i \in RowsOf(a) : m <= RowPrice(summary_sheet[i])
FirstRow(a) == CHOOSE i \in RowsOf(a) : \A k \in RowsOf(a) : i <= k

\* C19: in the Airline Summary sheet the rows of an airline are contiguous,
\* the rows of an airline are in ascending order of price, and of two
\* airlines the one with the lower minimum price comes first.
C19_SummaryGroupedAndOrdered ==
  Saved =>
    /\ Cardinality(DataRows) = Len(ui_flights)
    /\ \A a \in SheetAirlines : \A i, k \in RowsOf(a) :
         \A j \in i..k : j \in RowsOf(a)
    /\ \A a \in SheetAirlines : \A i, k \in RowsOf(a) :
         i < k => RowPrice(summary_sheet[i]) <= RowPrice(summary_sheet[k])
    /\ \A a, b \in SheetAirlines :
         FirstRow(a) < FirstRow(b) => GroupMin(a) <= GroupMin(b)

\* Two flights of one airline are given with a dearer flight of another
\* airline between them, and the airline given last is the cheaper one.
C19_Witness ==
  /\ Saved
  /\ Len(ui_flights) = 3
  /\ ui_flights[1].airline = ui_flights[3].airline
  /\ ui_flights[1].airline # ui_flights[2].airline
  /\ ui_flights[1].price < ui_flights[2].price
  /\ ui_flights[2].price < ui_flights[3].price
  /\ Len(summary_sheet) = 4

\* The aggregated result of the case with test_number i, if there is one.
EntriesOf(i) == {k \in DOMAIN all_results : all_results[k].test_number = i}

StageOrder ==
  <<"cities", "date", "submit", "wait", "count_before", "stops", "price",
    "count_after", "extract">>
StageNo(st) == CHOOSE k \in DOMAIN StageOrder : StageOrder[k] = st
IsStage(st) == \E k \in DOMAIN StageOrder : StageOrder[k] = st

\* C22: a run passes its stages in the fixed order (city selections, date,
\* submission, before-count, stops filter, price filter, after-count,
\* extraction), never going back and skipping at most a filter; the price
\* filter is never applied before the stops filter had its turn; counting
\* starts only after a search that succeeded.
C22_StagesInOrder ==
  [][ /\ (pc' # pc /\ IsStage(pc')) =>
           \/ pc = "idle" /\ pc' = "cities"
           \/ IsStage(pc) /\ StageNo(pc') = StageNo(pc) + 1
           \/ pc = "stops" /\ pc' = "count_after"
      /\ pc' = "stops" => achieved' = NoBounds /\ "price" \notin raisedIn'
      /\ (pc \in {"stops", "price"} /\ achieved' # achieved) =>
           pc = "price" /\ ("filters" \in raisedIn \/ stops.ran)
      /\ (pc' = "count_before" /\ pc # pc') =>
           /\ searchLog'.cities = <<TRUE, TRUE>>
           /\ searchLog'.attempts = 1
           /\ searchLog'.search_success
           /\ searchLog'.indicator \in {"list", "filters"}
      /\ (before_count' # before_count \/ after_count' # after_count
            \/ stops'.ran # stops.ran \/ achieved' # achieved
            \/ ui_filtered_flights' # ui_filtered_flights) =>
           \/ pc = "idle"
           \/ pc \in {"count_before", "stops", "price", "count_after", "extract"}
    ]_vars

\* Every stage was passed: both filters ran, stops first, and the run is at
\* the extraction.
C22_Witness ==
  /\ pc = "extract"
  /\ raisedIn = {}
  /\ stops.ran
  /\ achieved # NoBounds
  /\ before_count > after_count

\* C23: at most one browser is open at any moment: a run in progress has
\* exactly the browser it launched, and between runs, however the run before
\* ended, none is open, so a run never meets the browser of an earlier one.
C23_OneBrowserAtATime ==
  /\ openBrowsers <= 1
  /\ pc = "idle" => openBrowsers = 0
  /\ pc # "idle" => openBrowsers = 1

\* A later run of the same engine is in progress after an earlier run ended.
C23_Witness ==
  /\ runNo = 2
  /\ pc = "extract"
  /\ openBrowsers = 1

\* The filter_status that stands for a status of the engine.
StatusName(status) ==
  CASE status = "FAIL" -> "CORE_OPERATION_FAILED"
    [] status = "ERROR" -> "TECHNICAL_ERROR"
    [] status = "TIMEOUT" -> "TIMEOUT"
    [] OTHER -> "UNKNOWN_STATUS"

\* C24: for every executed case whose engine call returned a status other
\* than SUCCESS, wherever the case stands in the batch, the aggregated
\* results hold an entry of the case with the filter_status of that status.
C24_StatusRecordedForEveryCase ==
  \A i \in DOMAIN caseLog :
    (caseLog[i].kind = "result" /\ caseLog[i].status # "SUCCESS") =>
      /\ EntriesOf(i) # {}
      /\ \A k \in EntriesOf(i) :
           all_results[k].filter_status = StatusName(caseLog[i].status)

\* C26: every executed case has exactly one entry in the aggregated results,
\* the case that triggers the emergency stop included, and the summary
\* report has one row for each executed case.
C26_OneEntryPerCase ==
  /\ \A i \in DOMAIN caseLog : Cardinality(EntriesOf(i)) = 1
  /\ Len(all_results) = Len(caseLog)
  /\ (batch_pc = "done" /\ report # << >>) => Len(report) = Len(caseLog)

\* C27: passed_tests + failed_tests is the number of cases executed so far.
C27_CountersSumToExecuted ==
  passed_tests + failed_tests = idx

\* C28: the flights_found of an aggregated result is the number of flights
\* of that case's own result, 0 when the status is not SUCCESS.
C28_FlightsFoundOfOwnCase ==
  \A k \in DOMAIN all_results :
    LET o == caseLog[all_results[k].test_number]
    IN  all_results[k].flights_found =
          IF o.kind = "result" /\ o.status = "SUCCESS" THEN o.n ELSE 0

\* C25: for a SUCCESS run the Part 1 test reports NO_FLIGHTS_FOUND exactly
\* when no matching flight was extracted (filtered_count = 0) and PASSED
\* exactly when at least one was.
C25_Part1StatusFollowsFilteredCount ==
  part1_pc = "classified" =>
    /\ part1_result.filter_status = "NO_FLIGHTS_FOUND"
         <=> part1_result.filtered_count = 0
    /\ part1_result.filter_status = "PASSED"
         <=> part1_result.filtered_count > 0

VisibleRows(pg) == {i \in DOMAIN pg.rows : isVisible(pg.rows[i])}

\* C29: the price filter makes no hidden row visible (the rows visible after
\* it are among those visible before it), and in every SUCCESS result
\* after_count is at most before_count.
C29_FiltersOnlyHide ==
  [][ /\ pc = "price" => VisibleRows(page') \subseteq VisibleRows(page)
      /\ (pc = "finally" /\ pc' = "idle" /\ outcome'.kind = "returned"
            /\ outcome'.result.status = "SUCCESS") =>
           outcome'.result.after_count <= outcome'.result.before_count
    ]_vars

\* The stops filter was called and answered False.
StopsFailed == stops.ran /\ ~stops.ret

\* C30: a stops filter that fails, an unsupported label included, does not
\* end the run: the price filter has its turn next, and when nothing else
\* raises the after-count and the extraction follow and the run returns
\* SUCCESS.
C30_FailedStopsDoesNotAbort ==
  [][ /\ (pc = "stops" /\ stops'.ran /\ ~stops'.ret) => pc' = "price"
      /\ (StopsFailed /\ pc = "price") => pc' = "count_after"
      /\ (StopsFailed /\ pc = "price" /\ "price" \notin raisedIn'
            /\ "filters" \notin raisedIn' /\ achieved' # NoBounds) =>
           achieved' = targetBounds(config.price_min, config.price_max,
                                    page.slider)
      /\ (StopsFailed /\ raisedIn' \subseteq {"stops"}) =>
           /\ pc = "count_after" => pc' = "extract"
           /\ pc = "extract" => pc' = "finally" /\ pending'.status = "SUCCESS"
           /\ pc = "finally" =>
                outcome'.kind = "returned" /\ outcome'.result.status = "SUCCESS"
    ]_vars

\* A run with an unsupported label returned SUCCESS after the price filter
\* had been applied.
C30_Witness ==
  /\ Succeeded
  /\ StopsFailed
  /\ filter_mapping(config.stops_filter) = None
  /\ achieved # NoBounds
  /\ raisedIn = {}

====
